---- MODULE Spec2Model ----
(***************************************************************************)
(* The RAG chatbot API of src/api.py as a state machine: the in-memory     *)
(* session store, the upload pipeline (process_documents), the chat        *)
(* handler, session deletion and listing.                                  *)
(*                                                                         *)
(* Every endpoint is an `async def` whose body contains no `await`, so the *)
(* event loop runs a handler from its first statement to its return before *)
(* it starts another one.  The chat handler is nevertheless modelled step  *)
(* by step (start / append user turn / append assistant turn) under an     *)
(* explicit event loop, so that this atomicity is a property of the model  *)
(* (operator Yields) rather than an assumption built into its actions.     *)
(*                                                                         *)
(* Libraries (PDF/DOCX parsers, text splitter, Chroma, the LLM) are not    *)
(* part of the repository: their results are inputs of the actions.        *)
(***************************************************************************)
EXTENDS Integers, Sequences, FiniteSets, TLC

\* ------------------------------------------------------------- bounds
MaxSessions == 2        \* session ids ever issued
MaxFiles == 2           \* files in one upload batch
MaxTurns == 4           \* stored turns per session
MaxClientHistory == 1   \* chat_history messages sent in one chat request
MaxClock == 1           \* seconds the clock may advance
MaxReq == 2             \* chat requests in flight
MaxLeaked == 1          \* temporary files left on disk

\* ------------------------------------------------- program constants
chunk_size == 900
chunk_overlap == 150
MinPageChars == 5
StatusOK == 200
StatusNoContent == 400
StatusNotFound == 404
StatusError == 500

VARIABLES
    sessions,   \* api.py:33  session_id -> [vectordb, chat_history]
    tasks,      \* chat handlers in flight: request slot -> coroutine frame
    current,    \* the slot of the coroutine the event loop is running, 0 if none
    now,        \* int(time.time())
    tmpfiles,   \* number of NamedTemporaryFile(delete=False) files on disk
    prompt,     \* the chain input composed by the latest handler step, if any
    response,   \* the HTTP response of the request being handled
    call,       \* history variable: facts about the request being handled
    issued,     \* history variable: ids returned by successful uploads
    deleted     \* history variable: ids successfully deleted

vars == <<sessions, tasks, current, now, tmpfiles, prompt, response, call, issued, deleted>>

SessionIds == 1..MaxSessions
Reqs == 1..MaxReq
NoId == 0

\* ------------------------------------------------------------- inputs
\* An uploaded file: its extension as sent, whether reading the upload or
\* parsing the temporary copy raises, and the stripped length of each text
\* unit in it (PDF pages, DOCX paragraphs, the whole of a TXT).
SampleFiles ==
    { [ext |-> "txt",  fault |-> "none",  text |-> <<30>>],
      [ext |-> "txt",  fault |-> "none",  text |-> <<0>>],
      [ext |-> "docx", fault |-> "none",  text |-> <<12, 0>>],
      [ext |-> "docx", fault |-> "none",  text |-> <<0>>],
      [ext |-> "PDF",  fault |-> "none",  text |-> <<6, 5>>],
      [ext |-> "pdf",  fault |-> "none",  text |-> <<5>>],
      [ext |-> "pdf",  fault |-> "parse", text |-> <<6>>],
      [ext |-> "png",  fault |-> "none",  text |-> <<40>>],
      [ext |-> "txt",  fault |-> "read",  text |-> <<30>>] }

Batches == UNION { [1..n -> SampleFiles] : n \in 1..MaxFiles }

Questions == {"q1"}
Answers == {"a1"}
ClientRoles == {"user", "assistant", "system"}
ChatMessage == [role : ClientRoles, content : {"h"}]
ClientHistories == UNION { [1..n -> ChatMessage] : n \in 0..MaxClientHistory }
ChatRequest == [session_id : SessionIds, question : Questions, chat_history : ClientHistories]
InvokeOutcomes == {"ok", "retriever_fails", "llm_fails"}
ChromaOutcomes == {"ok", "raises"}

\* ------------------------------------------------------------ helpers
RECURSIVE Sum(_)
Sum(s) == IF s = <<>> THEN 0 ELSE Head(s) + Sum(Tail(s))

\* ext = filename.split(".")[-1].lower()
Lower(ext) == IF ext = "PDF" THEN "pdf" ELSE ext

\* load_docx: "\n".join(paragraph texts)
load_docx(text) == IF Sum(text) = 0 THEN 0 ELSE Sum(text) + Len(text) - 1

\* PyPDFLoader pages kept when len(page_content.strip()) > 5
RECURSIVE KeptPages(_)
KeptPages(text) ==
    IF text = <<>> THEN <<>>
    ELSE (IF Head(text) > MinPageChars THEN <<Head(text)>> ELSE <<>>) \o KeptPages(Tail(text))

\* One iteration of the loop over files: the documents it appends, whether it
\* raises, and how many temporary files it leaves behind.
LoadFile(file) ==
    LET ext == Lower(file.ext) IN
    IF file.fault = "read"
    THEN \* tmp.write(file.file.read()) raises inside the with block: the file
         \* was created with delete=False and the try/finally is not entered
         [docs |-> <<>>, raised |-> TRUE, leaked |-> 1]
    ELSE IF ext \in {"pdf", "docx", "txt"} /\ file.fault = "parse"
    THEN [docs |-> <<>>, raised |-> TRUE, leaked |-> 0]
    ELSE IF ext = "pdf"  THEN [docs |-> KeptPages(file.text), raised |-> FALSE, leaked |-> 0]
    ELSE IF ext = "docx" THEN [docs |-> <<load_docx(file.text)>>, raised |-> FALSE, leaked |-> 0]
    ELSE IF ext = "txt"  THEN [docs |-> <<Sum(file.text)>>, raised |-> FALSE, leaked |-> 0]
    ELSE [docs |-> <<>>, raised |-> FALSE, leaked |-> 0]

\* for file in files: ...   (an exception leaves the loop at once)
RECURSIVE LoadFiles(_, _)
LoadFiles(files, docs) ==
    IF files = <<>> THEN [docs |-> docs, raised |-> FALSE, leaked |-> 0]
    ELSE LET one == LoadFile(Head(files)) IN
         IF one.raised THEN [docs |-> docs, raised |-> TRUE, leaked |-> one.leaked]
         ELSE LoadFiles(Tail(files), docs \o one.docs)

\* RecursiveCharacterTextSplitter(chunk_size=900, chunk_overlap=150): the
\* number of chunks of a text of n stripped characters.
SplitCount(n) ==
    IF n = 0 THEN 0
    ELSE IF n <= chunk_size THEN 1
    ELSE 1 + ((n - chunk_size) + (chunk_size - chunk_overlap) - 1) \div (chunk_size - chunk_overlap)

RECURSIVE split_documents(_)
split_documents(docs) ==
    IF docs = <<>> THEN 0 ELSE SplitCount(Head(docs)) + split_documents(Tail(docs))

\* collection_name=f"rag_{int(time.time())}"
CollectionName(t) == t

\* process_documents(files).  chroma: whether Chroma.from_documents raises.
\* kind "none" is the `return None`; "index" carries the vector store.
process_documents(files, chroma) ==
    LET loaded == LoadFiles(files, <<>>) IN
    IF loaded.raised
    THEN [kind |-> "raised", vectordb |-> [collection_name |-> 0, chunks |-> 0],
          leaked |-> loaded.leaked]
    ELSE IF loaded.docs = <<>>
    THEN [kind |-> "none", vectordb |-> [collection_name |-> 0, chunks |-> 0], leaked |-> 0]
    ELSE IF chroma = "raises"
    THEN [kind |-> "raised", vectordb |-> [collection_name |-> 0, chunks |-> 0], leaked |-> 0]
    ELSE [kind |-> "index",
          vectordb |-> [collection_name |-> CollectionName(now),
                        chunks |-> split_documents(loaded.docs)],
          leaked |-> 0]

\* `not vectordb`: None is falsy; a Chroma object is falsy only when it has no
\* documents and the installed class defines __len__.
Falsy(result, has_len) ==
    \/ result.kind = "none"
    \/ result.kind = "index" /\ result.vectordb.chunks = 0 /\ has_len

\* Mutant: the session id derived from the clock, as the collection name is.
uuid4_from_clock == now + 1

\* session_id = str(uuid.uuid4()): an id no earlier call returned
uuid4 == Cardinality(issued) + 1

\* A batch holds a file that is supported, readable, parseable and has text.
WellFormed(file) ==
    /\ Lower(file.ext) \in {"pdf", "docx", "txt"}
    /\ file.fault = "none"
    /\ \E i \in 1..Len(file.text) : file.text[i] > MinPageChars

Response(status, detail) ==
    [status |-> status, detail |-> detail, session_id |-> NoId, answer |-> "", sessions |-> {}]

Pending == Response(0, "")

\* The frame of a chat coroutine; `before` is a history field: the stored
\* history the handler found when it started.
IdleTask == [pc |-> "idle", session_id |-> NoId, question |-> "", answer |-> "", before |-> <<>>]

NoPrompt == [chat_history |-> <<>>, question |-> ""]

NoRequest == [session_id |-> NoId, question |-> "", chat_history |-> <<>>]

\* The history record of a request: which endpoint, the chat request or the
\* session id sent, what process_documents returned, whether the batch held a
\* well-formed file while every upload could be read and the index service
\* worked, and whether the handler stored a session.
NewCall(op) ==
    [op |-> op, request |-> NoRequest, result |-> "", indexable |-> FALSE, created |-> FALSE]

NoCall == NewCall("")

\* ---------------------------------------------------------- event loop
\* Mutant: an await between the two appends of the chat handler.
YieldsBetweenAppends(pc) == pc = "append_assistant"

\* Whether a chat coroutine suspended at pc gives the event loop to another
\* handler: the body of chat has no await.
Yields(pc) == FALSE

\* The event loop can start a handler: it runs no coroutine, or the one it
\* runs is suspended.
LoopFree == IF current = 0 THEN TRUE ELSE Yields(tasks[current].pc)

\* The event loop can run the next statement of the chat coroutine in slot r.
CanRun(r) == IF current = r THEN TRUE ELSE LoopFree

Init ==
    /\ sessions = <<>>
    /\ tasks = [r \in Reqs |-> IdleTask]
    /\ current = 0
    /\ now = 0
    /\ tmpfiles = 0
    /\ prompt = NoPrompt
    /\ response = Pending
    /\ call = NoCall
    /\ issued = {}
    /\ deleted = {}

\* time passes
Tick ==
    /\ now < MaxClock
    /\ now' = now + 1
    /\ UNCHANGED <<sessions, tasks, current, tmpfiles, prompt, response, call, issued, deleted>>


\* ------------------------------------------------------------- upload
\* except Exception as e: raise HTTPException(status_code=500, detail=str(e))
except_Exception(detail) == Response(StatusError, detail)

\* raise HTTPException(status_code=400, detail="No valid documents processed"),
\* raised inside the try block whose handler catches every Exception
NoValidDocuments == except_Exception("400: No valid documents processed")

\* POST /upload
upload_files(files, chroma, has_len) ==
    LET result == process_documents(files, chroma)
        session_id == uuid4
        stored == result.kind # "raised" /\ ~Falsy(result, has_len)
        facts == [NewCall("upload") EXCEPT
                    !.result = IF result.kind = "index" /\ result.vectordb.chunks = 0
                               THEN "empty" ELSE result.kind,
                    !.indexable = /\ \E i \in 1..Len(files) : WellFormed(files[i])
                                  /\ \A i \in 1..Len(files) : files[i].fault # "read"
                                  /\ chroma = "ok",
                    !.created = stored]
    IN
    /\ LoopFree
    /\ Cardinality(issued) < MaxSessions
    /\ tmpfiles + result.leaked <= MaxLeaked
    /\ tmpfiles' = tmpfiles + result.leaked
    /\ call' = facts
    /\ IF result.kind = "raised"
       THEN /\ response' = except_Exception("upstream failure")
            /\ UNCHANGED <<sessions, issued>>
       ELSE IF Falsy(result, has_len)
       THEN /\ response' = NoValidDocuments
            /\ UNCHANGED <<sessions, issued>>
       ELSE /\ sessions' = [s \in DOMAIN sessions \cup {session_id} |->
                               IF s = session_id
                               THEN [vectordb |-> result.vectordb, chat_history |-> <<>>]
                               ELSE sessions[s]]
            /\ issued' = issued \cup {session_id}
            /\ response' = [Response(StatusOK, "Documents indexed successfully")
                               EXCEPT !.session_id = session_id]
    /\ prompt' = NoPrompt
    /\ UNCHANGED <<tasks, current, now, deleted>>

\* --------------------------------------------------------------- chat
\* Mutant: the session check moved inside the try block, as in upload_files.
ChatNotFoundCaught == except_Exception("404: Session not found")

\* if request.session_id not in sessions: raise HTTPException(404), outside the try
ChatNotFound == Response(StatusNotFound, "Session not found")

\* Mutant: only the role "assistant" becomes an AI message.
ToLangChainByAssistant(chat_history) ==
    [i \in 1..Len(chat_history) |->
        IF chat_history[i].role = "assistant"
        THEN [type |-> "ai", content |-> chat_history[i].content]
        ELSE [type |-> "human", content |-> chat_history[i].content]]

\* Convert chat history to LangChain format
ToLangChain(chat_history) ==
    [i \in 1..Len(chat_history) |->
        IF chat_history[i].role = "user"
        THEN [type |-> "human", content |-> chat_history[i].content]
        ELSE [type |-> "ai", content |-> chat_history[i].content]]

\* Mutant: the new turn inserted at the front of the list.
InsertTurnFirst(history, role, content) == <<[role |-> role, content |-> content]>> \o history

\* session["chat_history"].append({"role": role, "content": content})
AppendTurn(history, role, content) == Append(history, [role |-> role, content |-> content])

\* The handler up to and including rag.invoke: the session check, the history
\* conversion, retrieval, prompt composition and the model call.
ChatStart(r, request, outcome, answer) ==
    LET sid == request.session_id
        known == sid \in DOMAIN sessions
        composed == known /\ outcome # "retriever_fails"
    IN
    /\ LoopFree
    /\ tasks[r].pc = "idle"
    /\ known => Len(sessions[sid].chat_history) + 2 <= MaxTurns
    /\ call' = [NewCall("chat") EXCEPT !.request = request]
    /\ prompt' = IF composed
                 THEN [chat_history |-> ToLangChain(request.chat_history),
                       question |-> request.question]
                 ELSE NoPrompt
    /\ IF ~known
       THEN /\ response' = ChatNotFound
            /\ UNCHANGED <<tasks, current>>
       ELSE IF outcome # "ok"
       THEN /\ response' = except_Exception(outcome)
            /\ UNCHANGED <<tasks, current>>
       ELSE /\ response' = Pending
            /\ tasks' = [tasks EXCEPT ![r] = [pc |-> "append_user", session_id |-> sid,
                                              question |-> request.question,
                                              answer |-> answer,
                                              before |-> sessions[sid].chat_history]]
            /\ current' = r
    /\ UNCHANGED <<sessions, now, tmpfiles, issued, deleted>>

\* The local `session` keeps the dict of a session deleted meanwhile alive:
\* appending to it does not put it back into the store.
AppendToSession(sid, role, content) ==
    IF sid \in DOMAIN sessions
    THEN [sessions EXCEPT ![sid].chat_history = AppendTurn(@, role, content)]
    ELSE sessions

\* session["chat_history"].append({"role": "user", "content": request.question})
ChatAppendUser(r) ==
    /\ tasks[r].pc = "append_user"
    /\ CanRun(r)
    /\ sessions' = AppendToSession(tasks[r].session_id, "user", tasks[r].question)
    /\ tasks' = [tasks EXCEPT ![r].pc = "append_assistant"]
    /\ current' = r
    /\ prompt' = NoPrompt
    /\ UNCHANGED <<now, tmpfiles, response, call, issued, deleted>>

\* session["chat_history"].append({"role": "assistant", "content": answer})
\* return ChatResponse(answer=answer, session_id=request.session_id)
ChatAppendAssistant(r) ==
    /\ tasks[r].pc = "append_assistant"
    /\ CanRun(r)
    /\ sessions' = AppendToSession(tasks[r].session_id, "assistant", tasks[r].answer)
    /\ response' = [Response(StatusOK, "") EXCEPT !.answer = tasks[r].answer,
                                                  !.session_id = tasks[r].session_id]
    /\ tasks' = [tasks EXCEPT ![r] = IdleTask]
    /\ current' = 0
    /\ prompt' = NoPrompt
    /\ UNCHANGED <<now, tmpfiles, call, issued, deleted>>

\* ------------------------------------------------------ delete / list
\* del sessions[session_id]
RemoveSession(store, sid) == [s \in DOMAIN store \ {sid} |-> store[s]]

\* DELETE /session/{session_id}
delete_session(sid) ==
    /\ LoopFree
    /\ call' = [NewCall("delete") EXCEPT !.request.session_id = sid]
    /\ IF sid \in DOMAIN sessions
       THEN /\ sessions' = RemoveSession(sessions, sid)
            /\ deleted' = deleted \cup {sid}
            /\ response' = Response(StatusOK, "Session deleted")
       ELSE /\ response' = Response(StatusNotFound, "Session not found")
            /\ UNCHANGED <<sessions, deleted>>
    /\ prompt' = NoPrompt
    /\ UNCHANGED <<tasks, current, now, tmpfiles, issued>>

\* GET /sessions
list_sessions ==
    /\ LoopFree
    /\ call' = NewCall("list")
    /\ response' = [Response(StatusOK, "") EXCEPT !.sessions = DOMAIN sessions]
    /\ prompt' = NoPrompt
    /\ UNCHANGED <<sessions, tasks, current, now, tmpfiles, issued, deleted>>

Next ==
    \/ Tick
    \/ \E files \in Batches, chroma \in ChromaOutcomes, has_len \in BOOLEAN :
          upload_files(files, chroma, has_len)
    \/ \E r \in Reqs, request \in ChatRequest, outcome \in InvokeOutcomes, answer \in Answers :
          ChatStart(r, request, outcome, answer)
    \/ \E r \in Reqs : ChatAppendUser(r)
    \/ \E r \in Reqs : ChatAppendAssistant(r)
    \/ \E sid \in SessionIds : delete_session(sid)
    \/ list_sessions

Spec == Init /\ [][Next]_vars

\* The session store and the chat under uploads of three kinds (a batch that
\* is indexed, one with no supported file, one whose parser raises) and a
\* clock that stands still: the upload pipeline's other inputs do not reach
\* the store.
SessionBatches ==
    { <<[ext |-> "txt", fault |-> "none",  text |-> <<30>>]>>,
      <<[ext |-> "png", fault |-> "none",  text |-> <<40>>]>>,
      <<[ext |-> "pdf", fault |-> "parse", text |-> <<6>>]>> }

SessionNext ==
    \/ \E files \in SessionBatches, chroma \in ChromaOutcomes, has_len \in BOOLEAN :
          upload_files(files, chroma, has_len)
    \/ \E r \in Reqs, request \in ChatRequest, outcome \in InvokeOutcomes, answer \in Answers :
          ChatStart(r, request, outcome, answer)
    \/ \E r \in Reqs : ChatAppendUser(r)
    \/ \E r \in Reqs : ChatAppendAssistant(r)
    \/ \E sid \in SessionIds : delete_session(sid)
    \/ list_sessions

SessionSpec == Init /\ [][SessionNext]_vars

\* Every request the server has accepted is eventually handled.
FairSessionSpec == SessionSpec /\ WF_vars(SessionNext)


\* ===================================================================
\*                              Claims
\* ===================================================================
IsPrefix(a, b) == Len(a) <= Len(b) /\ SubSeq(b, 1, Len(a)) = a

Turn(role, content) == [role |-> role, content |-> content]

\* A history made of adjacent (user, assistant) pairs.
Paired(h) ==
    /\ Len(h) % 2 = 0
    /\ \A i \in 1..Len(h) : h[i].role = IF i % 2 = 1 THEN "user" ELSE "assistant"

\* The stored turns as prompt messages, role for role.
AsMessages(h) ==
    [i \in 1..Len(h) |->
        [type |-> IF h[i].role = "user" THEN "human" ELSE "ai", content |-> h[i].content]]

\* C1: an upload for which process_documents returns no index is answered
\* with status 400, and stores no session.
C1_NoContentIs400 ==
    (call.op = "upload" /\ call.result = "none")
        => (response.status = StatusNoContent /\ ~call.created)

\* The step is the start of the chat handler on the request recorded in call'.
ChatStarts(outcome) ==
    \E r \in Reqs, answer \in Answers : ChatStart(r, call'.request, outcome, answer)

\* C2: a chat against a session id that is not in the store is answered 404,
\* with no answer, and leaves the store and every history unchanged.
C2_UnknownSessionIs404 ==
    [][\A outcome \in InvokeOutcomes :
          (ChatStarts(outcome) /\ call'.request.session_id \notin DOMAIN sessions)
              => /\ response'.status = StatusNotFound
                 /\ response'.answer = ""
                 /\ sessions' = sessions
                 /\ tasks' = tasks]_vars

\* C2 witness: every id was issued and deleted, and a chat was answered 404.
C2_Witness ==
    /\ call.op = "chat"
    /\ response.status = StatusNotFound
    /\ deleted = SessionIds
    /\ sessions = <<>>

C3_StoreIsIssuedMinusDeleted ==
    /\ DOMAIN sessions = issued \ deleted
    /\ call.op = "list" => (response.status = StatusOK /\ response.sessions = issued \ deleted)

C3_Steps ==
    \* a successful upload adds one id that was never issued, and nothing else
    /\ (call'.op = "upload" /\ call'.created /\ sessions' # sessions)
          => \E id \in SessionIds :
                /\ id \notin issued
                /\ id \notin DOMAIN sessions
                /\ response'.status = StatusOK
                /\ response'.session_id = id
                /\ DOMAIN sessions' = DOMAIN sessions \cup {id}
                /\ \A s \in DOMAIN sessions : sessions'[s] = sessions[s]
    \* chat never adds or removes an id
    /\ (\/ \E r \in Reqs : ChatAppendUser(r) \/ ChatAppendAssistant(r)
        \/ \E outcome \in InvokeOutcomes : ChatStarts(outcome))
          => DOMAIN sessions' = DOMAIN sessions
    \* delete removes the named session only, or answers 404 and changes nothing
    /\ \A sid \in SessionIds :
          delete_session(sid)
              => IF sid \in DOMAIN sessions
                 THEN /\ response'.status = StatusOK
                      /\ DOMAIN sessions' = DOMAIN sessions \ {sid}
                      /\ \A s \in DOMAIN sessions' : sessions'[s] = sessions[s]
                 ELSE /\ response'.status = StatusNotFound
                      /\ sessions' = sessions
    \* listing changes nothing
    /\ list_sessions => sessions' = sessions

\* C3: GET /sessions returns exactly the ids issued by successful uploads and
\* not yet deleted; upload adds one fresh id, chat adds or removes none, delete
\* removes the named session only or answers 404 and changes nothing.
C3_SessionsExact == []C3_StoreIsIssuedMinusDeleted /\ [][C3_Steps]_vars

\* C3 witness: a listing after two uploads and one deletion.
C3_Witness ==
    /\ call.op = "list"
    /\ Cardinality(issued) = 2
    /\ Cardinality(deleted) = 1
    /\ response.sessions = issued \ deleted

\* C4: a batch that holds a well-formed pdf/docx/txt file is indexed and gets a
\* session, whatever unsupported or unparseable files come with it.
C4_GoodBatchSucceeds ==
    (call.op = "upload" /\ call.indexable)
        => (response.status = StatusOK /\ call.created)

\* C5: every session in the store has an index built from at least one chunk.
\* process_documents guards on docs, not on chunks, so what happens to a batch
\* of empty texts is decided by Chroma (inputs chroma and has_len of
\* upload_files): the formula fails exactly when the library builds an empty
\* index that is truthy.
C5_SessionsHaveChunks ==
    \A s \in DOMAIN sessions : sessions[s].vectordb.chunks > 0

\* C6: no temporary file created by process_documents outlives it.
C6_NoTempFileLeft == tmpfiles = 0

C7_Steps ==
    \* no step alters or removes a stored turn of a session that stays
    /\ \A s \in DOMAIN sessions \cap DOMAIN sessions' :
          IsPrefix(sessions[s].chat_history, sessions'[s].chat_history)
    \* a failed exchange is answered 500 and leaves the histories as they were
    /\ \A outcome \in InvokeOutcomes \ {"ok"} :
          (ChatStarts(outcome) /\ call'.request.session_id \in DOMAIN sessions)
              => (response'.status = StatusError /\ sessions' = sessions)
    \* a successful exchange leaves the history it found plus its two turns
    /\ \A r \in Reqs :
          ChatAppendAssistant(r)
              => /\ response'.status = StatusOK
                 /\ response'.answer = tasks[r].answer
                 /\ tasks[r].session_id \in DOMAIN sessions'
                 /\ sessions'[tasks[r].session_id].chat_history =
                        tasks[r].before \o <<Turn("user", tasks[r].question),
                                             Turn("assistant", tasks[r].answer)>>

\* C7: a successful exchange appends (user, question) then (assistant, answer)
\* to the history the chat found; a failed one leaves it unchanged; no step
\* alters or removes a turn of a session that is not deleted.
C7_HistoryAppendOnly == [][C7_Steps]_vars

\* C7 witness: a second successful exchange on a session.
C7_Witness ==
    /\ call.op = "chat"
    /\ response.status = StatusOK
    /\ \E s \in DOMAIN sessions :
          /\ response.session_id = s
          /\ Len(sessions[s].chat_history) = 4

\* C8: no two sessions in the store have the same collection name.
C8_CollectionNamesUnique ==
    \A s1, s2 \in DOMAIN sessions :
        s1 # s2 => sessions[s1].vectordb.collection_name # sessions[s2].vectordb.collection_name

HistoryInOrder(s) ==
    LET h == sessions[s].chat_history IN
    \/ Paired(h)
    \/ /\ current # 0
       /\ tasks[current].pc = "append_assistant"
       /\ tasks[current].session_id = s
       /\ h = tasks[current].before \o <<Turn("user", tasks[current].question)>>
       /\ Paired(tasks[current].before)

TwoExchanges == \E s \in DOMAIN sessions : Len(sessions[s].chat_history) >= 4

====
